---- MODULE Spec2Model ----
\* A model of xtask (src/xtask/src/main.rs): the subcommand dispatcher, the
\* three child-process runners, and the ~/.ssh/config mutator of setup-zed.
EXTENDS Integers, Sequences, FiniteSets, TLC

VARIABLES
    \* ---- one dispatched xtask process (every subcommand but setup-zed)
    command,      \* the parsed Commands variant, [name |-> "none"] before parsing
    pc,           \* position of the process in main / cmd_*
    calls,        \* child processes attempted so far, in order (history)
    result,       \* <<>> while running, <<r>> once main has returned r
    \* ---- setup-zed processes and the file system they share
    dirExists,    \* ~/.ssh exists
    fileExists,   \* ~/.ssh/config exists
    file,         \* content of ~/.ssh/config, a sequence of text pieces
    zpc,          \* per process: position in cmd_setup_zed
    entry_exists, \* per process: the local of that name
    report,       \* per process: what was printed about the entry
    zresult,      \* per process: <<>> while running, <<r>> once returned
    initFile,     \* history: content at the start of the run
    before,       \* history, per process: content when the process started
    after,        \* history, per process: content when the process returned
    sawLen,       \* history, per process: length of the content when it scanned
    scanOpened,   \* history, per process: its scan could open the file
    wrote,        \* history, per process: write_all was called
    order,        \* history: processes in the order they started
    overlap       \* history: some process started while another was running

cvars == <<command, pc, calls, result>>
zvars == <<dirExists, fileExists, file, zpc, entry_exists, report, zresult,
           initFile, before, after, sawLen, scanOpened, wrote, order,
           overlap>>
vars == <<cvars, zvars>>

\* ------------------------------------------------------------------ bounds
\* Exit codes a child process may return are 0..MaxExit.
MaxExit == 2
\* Longest initial ~/.ssh/config, in text pieces.
MaxInitLen == 2

\* ------------------------------------------------------- child processes
\* What Command::status() gives: an io::Error (the tool could not be
\* started) or the ExitStatus of the finished child.
LaunchError == [launched |-> FALSE, code |-> 0]
Exited(c) == [launched |-> TRUE, code |-> c]
Outcomes == {LaunchError} \cup {Exited(c) : c \in 0..MaxExit}

\* ExitStatus::success()
success(status) == status = 0

\* Result values. An anyhow error is its message, the command line the
\* message spells out (<<>> when it spells none) and the exit status it
\* spells out ({} when it spells none).
Ok(status) == [ok |-> TRUE, status |-> {status}, msg |-> "", cmdline |-> <<>>]
OkUnit == [ok |-> TRUE, status |-> {}, msg |-> "", cmdline |-> <<>>]
Err(m, cl, st) == [ok |-> FALSE, status |-> st, msg |-> m, cmdline |-> cl]

\* .with_context(|| format!("Failed to run: {} {}", cmd, args.join(" ")))
FailedToRun(cmd, args) == Err("Failed to run", <<cmd>> \o args, {})

run_command(cmd, args, oc) ==
    IF ~oc.launched THEN FailedToRun(cmd, args)
    ELSE IF ~success(oc.code)
         THEN Err("Command failed with status", <<>>, {oc.code})
         ELSE Ok(oc.code)

\* A runner that reports Ok even when the child could not be started.
run_command_interactive_swallows(cmd, args, oc) == Ok(oc.code)

\* A runner that forgets to let a launched child's exit status through.
run_command_interactive_bails(cmd, args, oc) == run_command(cmd, args, oc)

run_command_interactive(cmd, args, oc) ==
    IF ~oc.launched THEN FailedToRun(cmd, args) ELSE Ok(oc.code)

run_command_silent(cmd, args, oc) ==
    IF ~oc.launched THEN FailedToRun(cmd, args) ELSE Ok(oc.code)

\* The `?` operator followed by Ok(()): the error is passed on unmodified.
Try(r) == IF r.ok THEN OkUnit ELSE r

\* One attempted child process, as recorded in calls.
Invocation(cmd, args, mode, oc) ==
    [tool |-> cmd, args |-> args, mode |-> mode, outcome |-> oc]

\* ------------------------------------------------------------ subcommands
Commands ==
    [name : {"cmd_dev"}, build : BOOLEAN, test : BOOLEAN]
    \cup [name : {"cmd_shell"}]
    \cup [name : {"cmd_run"}, release : BOOLEAN, watch : BOOLEAN]
    \cup [name : {"cmd_test"}, ignored : BOOLEAN, unit : BOOLEAN]
    \cup [name : {"cmd_check"}, fix : BOOLEAN]
    \cup [name : {"cmd_build"}, linux : BOOLEAN]
    \cup [name : {"cmd_stop"}]
    \cup [name : {"cmd_restart"}]
    \cup [name : {"cmd_clean"}, volumes : BOOLEAN]
    \cup [name : {"cmd_migrate"}]
    \cup [name : {"cmd_sqlx_prepare"}]

ComposeFile == <<"compose", "-f", "docker-compose.dev.yml">>

dev_args(build, test) ==
    ComposeFile
    \o (IF test THEN <<"--profile", "test">> ELSE <<>>)
    \o <<"up">>
    \o (IF build THEN <<"--build">> ELSE <<>>)
    \o <<"-d">>

shell_args == <<"exec", "-it", "harborshield-dev", "bash">>

run_cmd(release, watch) ==
    IF watch
    THEN IF release
         THEN "cargo watch -x 'build --release' -s './target/release/harborshield --data-dir /data --debug'"
         ELSE "cargo watch -x 'build' -s './target/debug/harborshield --data-dir /data --debug'"
    ELSE IF release
         THEN "cargo build --release && ./target/release/harborshield --data-dir /data --debug"
         ELSE "cargo build && ./target/debug/harborshield --data-dir /data --debug"

run_args(release, watch) ==
    <<"exec", "-it", "harborshield-dev", "bash", "-c", run_cmd(release, watch)>>

\* The flags tested in the wrong order.
test_args_ignored_first(ignored, unit) ==
    IF ignored THEN <<"test", "--", "--ignored">>
    ELSE IF unit THEN <<"test", "--lib">>
    ELSE <<"test">>

test_args(ignored, unit) ==
    IF unit THEN <<"test", "--lib">>
    ELSE IF ignored THEN <<"test", "--", "--ignored">>
    ELSE <<"test">>

fmt_args(fix) == IF fix THEN <<"fmt">> ELSE <<"fmt", "--check">>

clippy_args(fix) ==
    <<"clippy", "--all-targets", "--all-features">>
    \o (IF fix THEN <<"--fix", "--allow-dirty">> ELSE <<>>)
    \o <<"--", "-D", "warnings">>

build_args(linux) ==
    IF linux
    THEN <<"build", "--release", "--target", "x86_64-unknown-linux-gnu">>
    ELSE <<"build", "--release">>

down_args == ComposeFile \o <<"down">>

restart_up_args == ComposeFile \o <<"up", "--build", "-d">>

\* The volume flag pushed whatever the option says.
clean_args_always_v(volumes) == ComposeFile \o <<"down", "-v">>

clean_args(volumes) ==
    ComposeFile \o <<"down">> \o (IF volumes THEN <<"-v">> ELSE <<>>)

clean_rm_args == <<"rm", "-f", "harborshield-dev", "test-nginx">>

\* --------------------------------------------------------------- actions
Attempt(cmd, args, mode, oc) ==
    calls' = Append(calls, Invocation(cmd, args, mode, oc))

Return(r) == result' = <<r>> /\ pc' = "exit"

\* Continue at label l when r is Ok, return r's error otherwise (`?`).
TryThen(r, l) ==
    IF r.ok THEN pc' = l /\ UNCHANGED result ELSE Return(r)

\* Continue at label l whatever r is (`let _ = ...`).
DiscardThen(r, l) == pc' = l /\ UNCHANGED result

\* `let _ = ...; Ok(())`: r is dropped and the function returns Ok.
DiscardReturn(r) == Return(OkUnit)

main ==
    /\ pc = "main"
    /\ \E c \in Commands : command' = c /\ pc' = c.name
    /\ UNCHANGED <<calls, result, zvars>>

cmd_dev ==
    /\ pc = "cmd_dev"
    /\ \E oc \in Outcomes :
        LET args == dev_args(command.build, command.test) IN
        /\ Attempt("docker", args, "captured", oc)
        /\ Return(Try(run_command("docker", args, oc)))
    /\ UNCHANGED <<command, zvars>>

cmd_shell ==
    /\ pc = "cmd_shell"
    /\ \E oc \in Outcomes :
        /\ Attempt("docker", shell_args, "interactive", oc)
        /\ Return(Try(run_command_interactive("docker", shell_args, oc)))
    /\ UNCHANGED <<command, zvars>>

cmd_run ==
    /\ pc = "cmd_run"
    /\ \E oc \in Outcomes :
        LET args == run_args(command.release, command.watch) IN
        /\ Attempt("docker", args, "interactive", oc)
        /\ Return(Try(run_command_interactive("docker", args, oc)))
    /\ UNCHANGED <<command, zvars>>

cmd_test ==
    /\ pc = "cmd_test"
    /\ \E oc \in Outcomes :
        LET args == test_args(command.ignored, command.unit) IN
        /\ Attempt("cargo", args, "captured", oc)
        /\ Return(Try(run_command("cargo", args, oc)))
    /\ UNCHANGED <<command, zvars>>

\* The lint step's error dropped instead of returned.
cmd_check_clippy_keeps_going ==
    /\ pc = "cmd_check_clippy"
    /\ \E oc \in Outcomes :
        LET args == clippy_args(command.fix) IN
        /\ Attempt("cargo", args, "captured", oc)
        /\ DiscardThen(run_command("cargo", args, oc), "cmd_check_test")
    /\ UNCHANGED <<command, zvars>>

cmd_check ==
    /\ pc = "cmd_check"
    /\ \E oc \in Outcomes :
        LET args == fmt_args(command.fix) IN
        /\ Attempt("cargo", args, "captured", oc)
        /\ TryThen(run_command("cargo", args, oc), "cmd_check_clippy")
    /\ UNCHANGED <<command, zvars>>

cmd_check_clippy ==
    /\ pc = "cmd_check_clippy"
    /\ \E oc \in Outcomes :
        LET args == clippy_args(command.fix) IN
        /\ Attempt("cargo", args, "captured", oc)
        /\ TryThen(run_command("cargo", args, oc), "cmd_check_test")
    /\ UNCHANGED <<command, zvars>>

cmd_check_test ==
    /\ pc = "cmd_check_test"
    /\ \E oc \in Outcomes :
        /\ Attempt("cargo", <<"test">>, "captured", oc)
        /\ Return(Try(run_command("cargo", <<"test">>, oc)))
    /\ UNCHANGED <<command, zvars>>

cmd_build ==
    /\ pc = "cmd_build"
    /\ \E oc \in Outcomes :
        LET args == build_args(command.linux) IN
        /\ Attempt("cargo", args, "captured", oc)
        /\ Return(Try(run_command("cargo", args, oc)))
    /\ UNCHANGED <<command, zvars>>

cmd_stop ==
    /\ pc = "cmd_stop"
    /\ \E oc \in Outcomes :
        /\ Attempt("docker", down_args, "captured", oc)
        /\ Return(Try(run_command("docker", down_args, oc)))
    /\ UNCHANGED <<command, zvars>>

\* The teardown's error returned instead of dropped.
cmd_restart_propagates ==
    /\ pc = "cmd_restart"
    /\ \E oc \in Outcomes :
        /\ Attempt("docker", down_args, "silent", oc)
        /\ TryThen(run_command("docker", down_args, oc), "cmd_restart_up")
    /\ UNCHANGED <<command, zvars>>

cmd_restart ==
    /\ pc = "cmd_restart"
    /\ \E oc \in Outcomes :
        /\ Attempt("docker", down_args, "silent", oc)
        /\ DiscardThen(run_command_silent("docker", down_args, oc),
                       "cmd_restart_up")
    /\ UNCHANGED <<command, zvars>>

cmd_restart_up ==
    /\ pc = "cmd_restart_up"
    /\ \E oc \in Outcomes :
        /\ Attempt("docker", restart_up_args, "captured", oc)
        /\ Return(Try(run_command("docker", restart_up_args, oc)))
    /\ UNCHANGED <<command, zvars>>

cmd_clean ==
    /\ pc = "cmd_clean"
    /\ \E oc \in Outcomes :
        LET args == clean_args(command.volumes) IN
        /\ Attempt("docker", args, "captured", oc)
        /\ TryThen(run_command("docker", args, oc), "cmd_clean_rm")
    /\ UNCHANGED <<command, zvars>>

cmd_clean_rm ==
    /\ pc = "cmd_clean_rm"
    /\ \E oc \in Outcomes :
        /\ Attempt("docker", clean_rm_args, "silent", oc)
        /\ DiscardReturn(run_command_silent("docker", clean_rm_args, oc))
    /\ UNCHANGED <<command, zvars>>

cmd_migrate ==
    /\ pc = "cmd_migrate"
    /\ \E oc \in Outcomes :
        LET args == <<"sqlx", "migrate", "run">> IN
        /\ Attempt("cargo", args, "captured", oc)
        /\ Return(Try(run_command("cargo", args, oc)))
    /\ UNCHANGED <<command, zvars>>

cmd_sqlx_prepare ==
    /\ pc = "cmd_sqlx_prepare"
    /\ \E oc \in Outcomes :
        LET args == <<"sqlx", "prepare">> IN
        /\ Attempt("cargo", args, "captured", oc)
        /\ Return(Try(run_command("cargo", args, oc)))
    /\ UNCHANGED <<command, zvars>>

\* ------------------------------------------------- setup-zed: the file
\* The content of ~/.ssh/config is a sequence of text pieces: a newline, or
\* a run of bytes holding no newline. A piece is never split.
NL == "\n"
Marker == "Host harborshield-dev"
OtherText == "Host other"
\* A run of bytes that is not valid UTF-8.
BadBytes == "<ff>"

ssh_config_entry ==
    <<NL, "# HarborShield dev container",
      NL, "Host harborshield-dev",
      NL, "    HostName localhost",
      NL, "    Port 2222",
      NL, "    User root",
      NL, "    StrictHostKeyChecking no",
      NL, "    UserKnownHostsFile /dev/null",
      NL>>

Pieces == {NL, Marker, OtherText, BadBytes}

\* All contents of at most n pieces.
RECURSIVE Contents(_)
Contents(n) ==
    IF n = 0 THEN {<<>>}
    ELSE LET shorter == Contents(n - 1) IN
         shorter \cup {Append(c, x) : c \in shorter, x \in Pieces}

\* BufRead::lines(): the pieces of each line, the newlines dropped; text
\* after the last newline is a line too.
RECURSIVE lines(_)
lines(content) ==
    IF content = <<>> THEN <<>>
    ELSE LET nls == {i \in 1..Len(content) : content[i] = NL} IN
         IF nls = {} THEN <<content>>
         ELSE LET i == CHOOSE j \in nls : \A k \in nls : j <= k IN
              <<SubSeq(content, 1, i - 1)>>
              \o lines(SubSeq(content, i + 1, Len(content)))

\* str::contains("Host harborshield-dev") on one piece of text.
contains(piece) == piece = Marker

\* A line decodes (is Ok) when all its bytes are valid UTF-8.
line_ok(line) == \A i \in 1..Len(line) : line[i] # BadBytes

\* |line| line.map(|l| l.contains(..)).unwrap_or(false)
line_matches(line) ==
    line_ok(line) /\ \E i \in 1..Len(line) : contains(line[i])

\* A scan that matches nothing.
scan_finds_nothing(content) == FALSE

\* reader.lines().any(..)
scan(content) ==
    \E i \in 1..Len(lines(content)) : line_matches(lines(content)[i])

\* The number of lines of the content that hold the marker text.
MarkerLines(content) ==
    Cardinality({i \in 1..Len(lines(content)) :
                    \E k \in 1..Len(lines(content)[i]) :
                        contains(lines(content)[i][k])})

\* A write through a handle opened without append(true): at offset 0.
write_at_start(content, data) ==
    data \o SubSeq(content, Len(data) + 1, Len(content))

\* A write through a handle opened with truncate(true).
write_truncating(content, data) == data

\* A write through a handle opened with append(true): at the end.
append_write(content, data) == content \o data

IsPrefix(s, t) == Len(s) <= Len(t) /\ SubSeq(t, 1, Len(s)) = s

\* ---------------------------------------------- setup-zed: the processes
Procs == {1, 2}

Running(q) == zpc[q] \notin {"idle", "exit"}

ZReturn(p, r, content) ==
    /\ zresult' = [zresult EXCEPT ![p] = <<r>>]
    /\ zpc' = [zpc EXCEPT ![p] = "exit"]
    /\ after' = [after EXCEPT ![p] = content]

ZErr(m) == Err(m, <<>>, {})

\* Lines 294-312: HOME is read and ~/.ssh is created. create_dir_all of a
\* directory that exists is Ok.
zed_start(p) ==
    /\ zpc[p] = "idle"
    /\ order' = Append(order, p)
    /\ before' = [before EXCEPT ![p] = file]
    /\ overlap' = (overlap \/ \E q \in Procs \ {p} : Running(q))
    /\ \E home \in BOOLEAN, created \in BOOLEAN :
        IF ~home
        THEN /\ ZReturn(p, ZErr("Could not find HOME directory"), file)
             /\ UNCHANGED dirExists
        ELSE IF ~dirExists /\ ~created
        THEN /\ ZReturn(p, ZErr("Failed to create .ssh directory"), file)
             /\ UNCHANGED dirExists
        ELSE /\ dirExists' = TRUE
             /\ zpc' = [zpc EXCEPT ![p] = "scan"]
             /\ UNCHANGED <<zresult, after>>
    /\ UNCHANGED <<fileExists, file, entry_exists, report, initFile, sawLen,
                   scanOpened, wrote, cvars>>

\* Lines 315-322: a file that cannot be opened counts as holding no entry.
zed_scan(p) ==
    /\ zpc[p] = "scan"
    /\ \E readable \in BOOLEAN :
        LET opened == fileExists /\ readable IN
        /\ entry_exists' = [entry_exists EXCEPT ![p] = opened /\ scan(file)]
        /\ scanOpened' = [scanOpened EXCEPT ![p] = opened]
    /\ sawLen' = [sawLen EXCEPT ![p] = Len(file)]
    /\ zpc' = [zpc EXCEPT ![p] = "decide"]
    /\ UNCHANGED <<dirExists, fileExists, file, report, zresult, initFile,
                   before, after, wrote, order, overlap, cvars>>

\* Lines 324-325, 340-348.
zed_already(p) ==
    /\ zpc[p] = "decide"
    /\ entry_exists[p]
    /\ report' = [report EXCEPT ![p] = "already exists"]
    /\ ZReturn(p, OkUnit, file)
    /\ UNCHANGED <<dirExists, fileExists, file, entry_exists, initFile,
                   before, sawLen, scanOpened, wrote, order, overlap, cvars>>

\* Lines 326-332: OpenOptions::new().create(true).append(true).open(..)
zed_open(p) ==
    /\ zpc[p] = "decide"
    /\ ~entry_exists[p]
    /\ \E opened \in BOOLEAN :
        IF opened
        THEN /\ fileExists' = TRUE
             /\ zpc' = [zpc EXCEPT ![p] = "write"]
             /\ UNCHANGED <<zresult, after>>
        ELSE /\ ZReturn(p, ZErr("Failed to open ~/.ssh/config"), file)
             /\ UNCHANGED fileExists
    /\ UNCHANGED <<dirExists, file, entry_exists, report, initFile, before,
                   sawLen, scanOpened, wrote, order, overlap, cvars>>

\* Lines 334-348: write_all either writes the whole entry, or fails having
\* written only the first n pieces of it.
zed_write(p) ==
    /\ zpc[p] = "write"
    /\ wrote' = [wrote EXCEPT ![p] = TRUE]
    /\ \E n \in 0..Len(ssh_config_entry) :
        LET content == append_write(file, SubSeq(ssh_config_entry, 1, n)) IN
        /\ file' = content
        /\ IF n = Len(ssh_config_entry)
           THEN /\ report' = [report EXCEPT ![p] = "added"]
                /\ ZReturn(p, OkUnit, content)
           ELSE /\ ZReturn(p, ZErr("Failed to write to ~/.ssh/config"), content)
                /\ UNCHANGED report
    /\ UNCHANGED <<dirExists, fileExists, entry_exists, initFile, before,
                   sawLen, scanOpened, order, overlap, cvars>>

\* -------------------------------------------------------- specifications
ZIdle ==
    /\ zpc = [p \in Procs |-> "idle"]
    /\ entry_exists = [p \in Procs |-> FALSE]
    /\ report = [p \in Procs |-> "none"]
    /\ zresult = [p \in Procs |-> <<>>]
    /\ before = [p \in Procs |-> <<>>]
    /\ after = [p \in Procs |-> <<>>]
    /\ sawLen = [p \in Procs |-> 0]
    /\ scanOpened = [p \in Procs |-> FALSE]
    /\ wrote = [p \in Procs |-> FALSE]
    /\ order = <<>>
    /\ overlap = FALSE

CIdle == command = [name |-> "none"] /\ calls = <<>> /\ result = <<>>

\* One xtask process running any subcommand but setup-zed.
Init ==
    /\ CIdle /\ pc = "main"
    /\ ZIdle
    /\ dirExists = FALSE /\ fileExists = FALSE
    /\ file = <<>> /\ initFile = <<>>

Next ==
    \/ main
    \/ cmd_dev
    \/ cmd_shell
    \/ cmd_run
    \/ cmd_test
    \/ cmd_check
    \/ cmd_check_clippy
    \/ cmd_check_test
    \/ cmd_build
    \/ cmd_stop
    \/ cmd_restart
    \/ cmd_restart_up
    \/ cmd_clean
    \/ cmd_clean_rm
    \/ cmd_migrate
    \/ cmd_sqlx_prepare

Spec == Init /\ [][Next]_vars

\* Two xtask setup-zed processes over one home directory, free to interleave.
\* A missing file has the empty content.
ZedInit ==
    /\ CIdle /\ pc = "setup_zed"
    /\ ZIdle
    /\ dirExists \in BOOLEAN
    /\ fileExists \in BOOLEAN
    /\ fileExists => dirExists
    /\ file \in Contents(MaxInitLen)
    /\ ~fileExists => file = <<>>
    /\ initFile = file

ZedNext ==
    \E p \in Procs :
        \/ zed_start(p)
        \/ zed_scan(p)
        \/ zed_already(p)
        \/ zed_open(p)
        \/ zed_write(p)

ZedSpec == ZedInit /\ [][ZedNext]_vars

\* ------------------------------------------------- claims: the dispatcher
Exited0 == pc = "exit" /\ Len(result) = 1
Succeeded(c) == c.outcome.launched /\ c.outcome.code = 0
ExitedNonZero(c) == c.outcome.launched /\ c.outcome.code # 0
CommandLine(c) == <<c.tool>> \o c.args

\* C3: cmd_check attempts format, lint and test in that order, each at most
\* once, each only after every earlier one succeeded, and reports success
\* only when all three succeeded.
C3_CheckFailFast ==
    command.name = "cmd_check" =>
        /\ Len(calls) <= 3
        /\ \A i \in 1..Len(calls) :
            /\ calls[i].tool = "cargo"
            /\ calls[i].mode = "captured"
            /\ Head(calls[i].args) = <<"fmt", "clippy", "test">>[i]
            /\ \A j \in 1..(i - 1) : Succeeded(calls[j])
        /\ (Exited0 /\ result[1].ok) =>
            (Len(calls) = 3 /\ \A i \in 1..3 : Succeeded(calls[i]))
        /\ (Exited0 /\ ~result[1].ok) => ~Succeeded(calls[Len(calls)])

\* C3's case: the format step failed and cmd_check returned after it alone.
C3_Witness ==
    /\ command.name = "cmd_check"
    /\ Exited0
    /\ Len(calls) = 1
    /\ ExitedNonZero(calls[1])
    /\ ~result[1].ok

\* C4: the error returned for a Captured child that exited non-zero carries
\* the command line of that child and its exit status.
C4_FailureCarriesCommandLine ==
    (/\ Exited0
     /\ calls # <<>>
     /\ calls[Len(calls)].mode = "captured"
     /\ ExitedNonZero(calls[Len(calls)])
     /\ ~result[1].ok)
    => /\ result[1].cmdline = CommandLine(calls[Len(calls)])
       /\ result[1].status = {calls[Len(calls)].outcome.code}

\* C5 as stated: whenever any sub-invocation of a finished command, in any
\* of the three modes, failed to launch, the command reports failure.
C5_LaunchFailureAlwaysSurfaced ==
    (Exited0 /\ \E i \in 1..Len(calls) : ~calls[i].outcome.launched)
    => ~result[1].ok

\* C5 amended: a Captured or Interactive sub-invocation that fails to launch
\* makes the command report failure, naming that command line; the launch
\* failure of a Silent sub-invocation is dropped by restart and clean, whose
\* result is then that of their Captured step.
C5_LaunchFailureSurfacedUnlessSilent ==
    Exited0 =>
        /\ \A i \in 1..Len(calls) :
            (calls[i].mode \in {"captured", "interactive"}
             /\ ~calls[i].outcome.launched)
            => /\ ~result[1].ok
               /\ result[1].msg = "Failed to run"
               /\ result[1].cmdline = CommandLine(calls[i])
        /\ (\A i \in 1..Len(calls) :
                calls[i].mode = "silent" \/ Succeeded(calls[i]))
            => result[1].ok

\* C5's case: the shell could not be started and cmd_shell reported it.
C5_Witness ==
    /\ command.name = "cmd_shell"
    /\ Exited0
    /\ ~calls[1].outcome.launched
    /\ ~result[1].ok

\* C6: a Silent child's non-zero exit neither fails the command nor stops
\* it: restart goes on to its up step whatever the teardown did and returns
\* what the up step gives; clean returns what its compose-down step gives.
C6_SilentNeverFails ==
    /\ command.name = "cmd_restart" =>
        /\ (Len(calls) = 1 => pc = "cmd_restart_up")
        /\ Exited0 =>
            /\ Len(calls) = 2
            /\ calls[1].mode = "silent"
            /\ calls[2].mode = "captured"
            /\ calls[2].args = <<"compose", "-f", "docker-compose.dev.yml",
                                 "up", "--build", "-d">>
            /\ result[1].ok <=> Succeeded(calls[2])
    /\ (command.name = "cmd_clean" /\ Exited0) =>
        /\ calls[1].mode = "captured"
        /\ result[1].ok <=> Succeeded(calls[1])
        /\ Len(calls) = 2 => calls[2].mode = "silent"

\* C6's case: restart's silent teardown exited non-zero, the up step ran
\* and restart reported success.
C6_Witness ==
    /\ command.name = "cmd_restart"
    /\ Exited0
    /\ ExitedNonZero(calls[1])
    /\ result[1].ok

\* C7: open-shell and build-and-run report success for every exit status of
\* their child, and failure only when the child cannot be launched.
C7_InteractiveExitIgnored ==
    (command.name \in {"cmd_shell", "cmd_run"} /\ Exited0) =>
        /\ Len(calls) = 1
        /\ calls[1].mode = "interactive"
        /\ result[1].ok <=> calls[1].outcome.launched

\* C7's case: the child of build-and-run exited non-zero, the command
\* reported success.
C7_Witness ==
    /\ command.name = "cmd_run"
    /\ Exited0
    /\ ExitedNonZero(calls[1])
    /\ result[1].ok

\* C8: cmd_test makes exactly one Captured call of cargo, with ["test",
\* "--lib"] when unit is set, ["test", "--", "--ignored"] when only ignored
\* is set, and ["test"] when neither is.
C8_TestArguments ==
    (command.name = "cmd_test" /\ pc # "cmd_test") =>
        /\ Exited0
        /\ Len(calls) = 1
        /\ calls[1].tool = "cargo"
        /\ calls[1].mode = "captured"
        /\ command.unit => calls[1].args = <<"test", "--lib">>
        /\ (~command.unit /\ command.ignored) =>
            calls[1].args = <<"test", "--", "--ignored">>
        /\ (~command.unit /\ ~command.ignored) => calls[1].args = <<"test">>

\* C8's case: both flags set, and the unit-test arguments were used.
C8_Witness ==
    /\ command.name = "cmd_test"
    /\ Exited0
    /\ command.unit /\ command.ignored
    /\ calls[1].args = <<"test", "--lib">>

CleanDown(volumes) ==
    <<"compose", "-f", "docker-compose.dev.yml", "down">>
    \o (IF volumes THEN <<"-v">> ELSE <<>>)

IsCleanDown(c, volumes) ==
    c.tool = "docker" /\ c.mode = "captured" /\ c.args = CleanDown(volumes)

IsCleanRm(c) ==
    /\ c.tool = "docker"
    /\ c.mode = "silent"
    /\ c.args = <<"rm", "-f", "harborshield-dev", "test-nginx">>

\* C9: clean issues the compose-down vector, with a trailing "-v" exactly
\* when volumes is set, as a Captured call; the silent removal of the two
\* containers follows it, as the next and last call, once it has succeeded
\* (like every Captured step, a failed one returns its error at once).
C9_CleanRemovesAfterDown ==
    (command.name = "cmd_clean" /\ Exited0) =>
        /\ IsCleanDown(calls[1], command.volumes)
        /\ Succeeded(calls[1]) => (Len(calls) = 2 /\ IsCleanRm(calls[2]))
        /\ ~Succeeded(calls[1]) => (Len(calls) = 1 /\ ~result[1].ok)

\* C9's case: clean with volumes set; compose-down ran with the trailing
\* "-v" and the silent removal, which exited non-zero, followed it.
C9_Witness ==
    /\ command.name = "cmd_clean"
    /\ Exited0
    /\ command.volumes
    /\ Len(calls) = 2
    /\ calls[1].args = <<"compose", "-f", "docker-compose.dev.yml", "down",
                         "-v">>
    /\ IsCleanRm(calls[2])
    /\ ExitedNonZero(calls[2])
    /\ result[1].ok

\* -------------------------------------------------- claims: setup-zed
ZExited(p) == zpc[p] = "exit" /\ Len(zresult[p]) = 1
ZOk(p) == ZExited(p) /\ zresult[p][1].ok
\* Two calls were made one after the other and both have returned.
TwoInSequence ==
    /\ Len(order) = 2
    /\ ~overlap
    /\ \A p \in Procs : ZExited(p)
HomeUnresolved(p) ==
    ZExited(p) /\ zresult[p][1].msg = "Could not find HOME directory"

BothScannedFirst ==
    \A p \in Procs :
        /\ sawLen[p] = Len(initFile)
        /\ ~entry_exists[p]
        /\ ZExited(p)
        /\ report[p] = "added"

\* C2: when both processes finish their scan, finding no marker, before
\* either appends, and both then append, the file ends with the entry twice;
\* nothing keeps that interleaving from happening.
C2_RaceAppendsTwice ==
    BothScannedFirst =>
        /\ file = initFile \o ssh_config_entry \o ssh_config_entry
        /\ MarkerLines(file) = MarkerLines(initFile) + 2

\* C2's case: an existing, readable config file without the marker, two
\* overlapping processes that both scanned it before either appended, and
\* the entry in it twice at the end.
C2_Witness ==
    /\ BothScannedFirst
    /\ overlap
    /\ initFile # <<>> /\ MarkerLines(initFile) = 0
    /\ \A p \in Procs : scanOpened[p] /\ ZOk(p)
    /\ MarkerLines(file) = 2

\* C10 as stated: after a call, successful or failed, the previous content
\* is a prefix of the new content; the content is unchanged when the marker
\* was already present or HOME could not be resolved; otherwise the only
\* change is the whole entry appended at the end.
C10_OnlyWholeEntryAppended ==
    \A p \in Procs :
        (ZExited(p) /\ ~overlap) =>
            /\ IsPrefix(before[p], after[p])
            /\ (MarkerLines(before[p]) > 0 \/ HomeUnresolved(p))
                => after[p] = before[p]
            /\ after[p] \in {before[p], before[p] \o ssh_config_entry}

\* C10 amended: after a call, successful or failed, the previous content is
\* a prefix of the new content; the content is unchanged when the scan found
\* the marker or HOME could not be resolved; otherwise the only change is
\* the entry, or when the write fails a leading part of it, appended at the
\* end, and a call that reports "added" appended the whole entry.
C10_OnlyEntryAppended ==
    \A p \in Procs :
        ZExited(p) =>
            /\ IsPrefix(before[p], after[p])
            /\ ~overlap =>
                /\ (entry_exists[p] \/ HomeUnresolved(p))
                    => after[p] = before[p]
                /\ \E n \in 0..Len(ssh_config_entry) :
                    after[p] = before[p] \o SubSeq(ssh_config_entry, 1, n)
                /\ ~wrote[p] => after[p] = before[p]
                /\ report[p] = "added"
                    => after[p] = before[p] \o ssh_config_entry

\* C10's case: a call that found other content and no marker, and returned
\* with the entry appended after that content.
C10_Witness ==
    \E p \in Procs :
        /\ ZOk(p) /\ ~overlap
        /\ before[p] # <<>>
        /\ wrote[p]
        /\ after[p] = before[p] \o ssh_config_entry

====
